---- MODULE Spec2Model ----
(***************************************************************************)
(* The rate-limited, observable upload transport of youtubeuploader        *)
(* (package internal/limiter): LimitTransport.RoundTrip installs the       *)
(* request body into one long-lived limitChecker, limitChecker.Read        *)
(* throttles through a token bucket inside a daily time window and records *)
(* progress in Status, GetMonitorStatus copies Status for the progress     *)
(* task.                                                                   *)
(*                                                                         *)
(* Time is a wall clock counted in ticks; one tick is the second of the    *)
(* rate (rateLimit*kbps2bpsMultiplier tokens are added per tick) and a     *)
(* day (time.Hour*24) is TicksPerDay ticks.  ZeroTime is Go's zero         *)
(* time.Time; the clock starts on day 1.                                   *)
(***************************************************************************)
EXTENDS Integers, Sequences, FiniteSets, TLC

\* ------------------------------------------------------------------ bounds
TicksPerDay == 6
MaxTicks == 2
MaxReads == 2
MaxBodies == 2
MaxEvents == 2
\* callbackTimeout (120 seconds) in steps of the callback server's clock.
CallbackTimeout == 3

\* ------------------------------------------------------- program constants
kbps2bpsMultiplier == 125

ZeroTime == 0
\* The day on which the program starts and parses its window.
ParseDay == 1
ProgressEmpty == -1
ProgressNA == -2

\* The -ratelimit settings (Kbps; 0: no limit), the lengths of the buffers
\* offered to Read, and the configured file sizes (0: the size is unknown, as
\* when uploading from a pipe).
RateLimits == {0, 1}
BufLens == {kbps2bpsMultiplier, 2 * kbps2bpsMultiplier}
FileSizes == {0, 3 * kbps2bpsMultiplier}
\* -limitBetween literals, already split at the hyphen into clock times.
Betweens == {<<1, 3>>, <<4, 2>>, <<2, 2>>}
\* What the underlying stream's Read may return for a buffer of length n: a
\* full or a short read without error (io.Reader discourages 0, nil for a
\* non-empty buffer), or an error (the end of the stream, or a failure) with
\* no bytes or with a short read.
ReadOutcomes(n) ==
    {[n |-> k, err |-> "nil"] : k \in {n \div 2, n}}
    \cup {[n |-> k, err |-> e] : k \in {0, n \div 2}, e \in {"EOF", "ErrUnexpected"}}

Min(a, b) == IF a < b THEN a ELSE b

\* --------------------------------------------------------------- time.Time
DayOf(t) == t \div TicksPerDay
Date(day, clock) == day * TicksPerDay + clock
AddDate1(t) == t + TicksPerDay
IsZero(t) == t = ZeroTime
Before(a, b) == a < b
After(a, b) == a > b

ZeroRange == [start |-> ZeroTime, end |-> ZeroTime]

\* The parse without the step for a range that spans midnight.
ParseLimitBetweenSameDay(parts, t) ==
    IF Len(parts) # 2
    THEN [ok |-> FALSE, lr |-> ZeroRange]
    ELSE [ok |-> TRUE, lr |-> [start |-> Date(DayOf(t), parts[1]),
                               end |-> Date(DayOf(t), parts[2])]]

ParseLimitBetween(parts, t) ==
    IF Len(parts) # 2
    THEN [ok |-> FALSE, lr |-> ZeroRange]
    ELSE LET start == Date(DayOf(t), parts[1])
             end0 == Date(DayOf(t), parts[2])
             end == IF Before(end0, start) THEN AddDate1(end0) ELSE end0
         IN [ok |-> TRUE, lr |-> [start |-> start, end |-> end]]

\* ------------------------------------------------------------------ Status
ZeroStatus ==
    [AvgRate |-> 0, Bytes |-> 0, TotalBytes |-> 0, Progress |-> ProgressEmpty,
     Start |-> ZeroTime, TimeRem |-> 0]

\* fmt.Sprintf("%.1f%%", bytes/total*100): tenths of a percent, rounded.
ProgressOf(bytes, total) == (2000 * bytes + total) \div (2 * total)

\* int(float64(bytes) / time.Since(start).Seconds()); a read that completes
\* within the tick of Start has its elapsed time rounded up to one tick.
AvgRateOf(bytes, start, t) == bytes \div (IF t > start THEN t - start ELSE 1)

\* time.Duration(float64(total-bytes)/float64(avg)) * time.Second.  With
\* avg = 0 the quotient is +Inf or NaN and its conversion to int64 is
\* implementation-dependent: 0 (amd64, after the multiplication wraps) or -1.
TimeRemOf(total, bytes, avg) ==
    IF avg = 0 THEN {0, -1} ELSE {(total - bytes) \div avg}

VARIABLES
    now,        \* wall clock
    nticks,     \* steps the clock has taken
    transport,  \* LimitTransport: limitRange, filesize, rateLimit
    between,    \* the -limitBetween literal the range was parsed from (<<>>: none)
    readerInit, \* LimitTransport.readerInit
    reader,     \* LimitTransport.reader (limitChecker)
    locked,     \* limitChecker's mutex is held
    pc,         \* position of the Read call in progress
    p,          \* len(p) of the Read call in progress
    buf,        \* length of the buffer the caller offered to the last Read call
    bufs,       \* the buffer lengths the callers of Read use
    lockq,      \* Read calls that are blocked in lc.Lock()
    nreq,       \* payload requests sent; request k carries body k and context k
    closed,     \* bodies that have been closed
    cancelled,  \* request contexts that have been cancelled
    rpc,        \* position of the progress task
    nreads,     \* Read calls started
    bodyDone,   \* a Read of the installed body returned an error: its reader stops
    ret,        \* what the last Read call returned: n, err
    waited,     \* the last Read call called limiter.WaitN
    delivered,  \* bytes returned by all Read calls so far
    ulRet,      \* what the underlying Read returned to the last Read call
    committed,  \* Status when the mutex was last released
    sent,       \* the last request handed to the wrapped transport: headers, body
    consumed,   \* bytes the underlying streams have given up so far
    prog,       \* the progress task (Progress.Run): flags, channels, counters
    oauth       \* the three-legged OAuth flow (BuildOAuthHTTPClient)

vars == <<now, nticks, bodyDone, transport, between, readerInit, reader, locked, pc, p, nreq,
          closed, cancelled, rpc, nreads, ret, waited, delivered, ulRet, committed,
          sent, consumed, prog, buf, bufs, lockq, oauth>>

\* ------------------------------------------------------------ http.Request
\* Header values are sequences of pieces of text, so that a prefix is a
\* prefix of the sequence; <<>> is the empty string (header absent).
HasPrefix(str, prefix) ==
    Len(str) >= Len(prefix) /\ SubSeq(str, 1, Len(prefix)) = prefix

ContentTypes ==
    {<<>>, <<"multipart/related", "; boundary=x">>, <<"video", "/mp4">>,
     <<"application/octet-stream">>, <<"application/json">>,
     <<"text/plain", "; video">>}
UploadContentTypes == {<<>>, <<"application/octet-stream">>, <<"video", "/mp4">>}
Headers == [ct : ContentTypes, xuct : UploadContentTypes]

\* The header of the requests that carry the media in a multipart upload.
UploadHeader == [ct |-> <<"multipart/related", "; boundary=x">>, xuct |-> <<>>]

\* No request has been forwarded yet.
NoRequest == [hdr |-> [ct |-> <<>>, xuct |-> <<>>], body |-> "none"]

\* ------------------------------------------------------------ Progress
\* NewProgress(transport, interval): quiet iff the interval is 0.  ticker and
\* signal are the two channels of capacity 1 that Run selects on, done is its
\* context; ticks, signals and outputs count what Run received and the calls
\* of Output it made, outputsAtDone is outputs when the context was cancelled.
NewProgress(quiet) ==
    [quiet |-> quiet, running |-> TRUE, ticker |-> FALSE, signal |-> FALSE,
     done |-> FALSE, ticks |-> 0, signals |-> 0, outputs |-> 0,
     outputsAtDone |-> 0]

\* ------------------------------------------------------------ OAuth flow
\* The flow before BuildOAuthHTTPClient is called.  main is the position of
\* BuildOAuthHTTPClient, watcher that of the goroutine that shuts the server
\* down on timeout, serve that of the goroutine in ListenAndServe; quit and
\* ch tell whether quitChan and callbackCh are closed, down whether
\* srv.Shutdown has been called, ctxDone whether the caller's context is
\* cancelled; elapsed is the time since ctx2 was made, requests the callback
\* requests that have arrived, got what BuildOAuthHTTPClient received.
NewOAuth ==
    [main |-> "start", watcher |-> "none", serve |-> "none", ch |-> "open",
     quit |-> FALSE, down |-> FALSE, elapsed |-> 0, ctxDone |-> FALSE,
     requests |-> 0, got |-> "none"]

ZeroReader ==
    [ReadCloser |-> 0, limitRange |-> ZeroRange, limiter |-> FALSE, tokens |-> 0,
     burstLimit |-> 0, rateLimit |-> 0, ctx |-> 0, status |-> ZeroStatus]

\* main: ParseLimitBetween when -limitBetween is given, then NewLimitTransport;
\* lens are the buffer lengths that the callers of Read will use.
InitFor(t0s, bs, rates, sizes, quiets, lens) ==
    /\ now \in {Date(ParseDay, c) : c \in t0s}
    /\ nticks = 0
    /\ between \in bs
    /\ \E rl \in rates, fs \in sizes :
         transport = [limitRange |-> IF between = <<>> THEN ZeroRange
                                     ELSE ParseLimitBetween(between, now).lr,
                      filesize |-> fs, rateLimit |-> rl]
    /\ readerInit = FALSE
    /\ reader = ZeroReader
    /\ locked = FALSE
    /\ pc = "idle"
    /\ p = 0
    /\ buf = 0
    /\ nreq = 0
    /\ closed = {}
    /\ cancelled = {}
    /\ rpc = "idle"
    /\ nreads = 0
    /\ bodyDone = FALSE
    /\ ret = [n |-> 0, err |-> "nil"]
    /\ waited = FALSE
    /\ delivered = 0
    /\ ulRet = [n |-> 0, err |-> "nil"]
    /\ committed = ZeroStatus
    /\ sent = NoRequest
    /\ consumed = 0
    /\ prog \in {NewProgress(q) : q \in quiets}
    /\ bufs = lens
    /\ lockq = 0
    /\ oauth = NewOAuth

\* The callers of Read use buffers of the lengths BufLens.
InitWith(t0s, bs, rates, sizes, quiets) ==
    InitFor(t0s, bs, rates, sizes, quiets, BufLens)

Init == InitWith({1}, {<<>>}, RateLimits, FileSizes, {FALSE})

\* The same program configured with a -limitBetween window, at any time of day.
InitWindow ==
    InitWith(0..(TicksPerDay - 1), Betweens \cup {<<>>}, RateLimits,
             {3 * kbps2bpsMultiplier}, {FALSE})

\* A mutex that excludes no one.
MayLockAlways == TRUE

\* sync.Mutex.Lock returns only while no one holds the mutex.
MayLock == ~locked

\* ---------------------------------------------------- LimitTransport.RoundTrip
\* First payload request only: seed the reader from the transport.
SeedReader(rd, t, k) ==
    [rd EXCEPT !.ctx = k,
               !.limitRange = t.limitRange,
               !.rateLimit = t.rateLimit,
               !.status = [rd.status EXCEPT !.TotalBytes = t.filesize]]

\* A replacement that starts a fresh monitor, as an earlier RoundTrip did.
WrapBodyResetStatus(rd, k) ==
    [rd EXCEPT !.ReadCloser = k,
               !.status = IF IsZero(rd.status.Start) THEN rd.status ELSE ZeroStatus]

\* A new limitChecker for every payload request, as the first RoundTrip made:
\* the next Read builds a new, full bucket.
WrapBodyNewLimiter(rd, k) ==
    [rd EXCEPT !.ReadCloser = k, !.limiter = FALSE, !.tokens = 0, !.burstLimit = 0]

\* Wrap the request body in the limitChecker.
WrapBody(rd, k) == [rd EXCEPT !.ReadCloser = k]

\* Seeding on every payload request, the window, rate and context included.
SeedOnceReseeds(rd, t, k, init) == SeedReader(rd, t, k)

\* The reader is seeded on the first payload request only.
SeedOnce(rd, t, k, init) == IF ~init THEN SeedReader(rd, t, k) ELSE rd

\* Any X-Upload-Content-Type header taken as the mark of a payload request.
IsPayloadAnyUploadType(h) ==
    \/ HasPrefix(h.ct, <<"multipart/related">>)
    \/ HasPrefix(h.ct, <<"video">>)
    \/ HasPrefix(h.ct, <<"application/octet-stream">>)
    \/ h.xuct # <<>>

\* The request is one that carries the video.
IsPayload(h) ==
    \/ HasPrefix(h.ct, <<"multipart/related">>)
    \/ HasPrefix(h.ct, <<"video">>)
    \/ HasPrefix(h.ct, <<"application/octet-stream">>)
    \/ h.xuct = <<"application/octet-stream">>

\* A replacement that leaves the stream installed before open.
CloseInstalledNever(rd, cl) == cl

\* The streams closed once RoundTrip has closed the one installed, if any.
CloseInstalled(rd, cl) == IF rd.ReadCloser # 0 THEN cl \cup {rd.ReadCloser} ELSE cl

\* RoundTrip of a request with header h; t.transport.RoundTrip(r) then gets
\* the request with the body it has at that point.
RoundTripOf(h) ==
    IF IsPayload(h)
    THEN /\ MayLock
         /\ nreq < MaxBodies
         /\ LET k == nreq + 1
                rd1 == SeedOnce(reader, transport, k, readerInit)
            IN /\ closed' = CloseInstalled(rd1, closed)
               /\ reader' = WrapBody(rd1, k)
               /\ nreq' = k
         /\ readerInit' = TRUE
         /\ bodyDone' = FALSE
         /\ committed' = reader'.status
         /\ sent' = [hdr |-> h, body |-> "reader"]
         /\ UNCHANGED <<now, nticks, transport, between, locked, pc, p, cancelled, rpc,
                        nreads, ret, waited, delivered, ulRet, consumed, prog, buf, bufs,
                        lockq, oauth>>
    ELSE /\ sent' = [hdr |-> h, body |-> "own"]
         /\ UNCHANGED <<now, nticks, transport, between, readerInit, reader, locked, pc,
                        p, nreq, closed, cancelled, rpc, nreads, bodyDone, ret, waited,
                        delivered, ulRet, committed, consumed, prog, buf, bufs, lockq,
                        oauth>>

\* A request that carries the video.
RoundTrip == RoundTripOf(UploadHeader)

\* Any request of the client: payload, metadata, authorisation.
RoundTripAny == \E h \in Headers : RoundTripOf(h)

\* ------------------------------------------------------- limitChecker.Read
SetStart(st, t) == IF IsZero(st.Start) THEN [st EXCEPT !.Start = t] ELSE st

\* rate.NewLimiter(rateLimit*kbps2bpsMultiplier, len(p)): the bucket starts full.
EnsureLimiter(rd, lenp) ==
    IF rd.rateLimit > 0 /\ ~rd.limiter
    THEN [rd EXCEPT !.limiter = TRUE, !.burstLimit = lenp, !.tokens = lenp]
    ELSE rd

Rate(rd) == rd.rateLimit * kbps2bpsMultiplier

RollRange(lr, t) ==
    IF t - lr.start >= TicksPerDay
    THEN [start |-> AddDate1(lr.start), end |-> AddDate1(lr.end)]
    ELSE lr

\* The test with the start instant counted as inside.
ContainsHalfOpen(lr, t) == ~Before(t, lr.start) /\ After(lr.end, t)

Contains(lr, t) == Before(lr.start, t) /\ After(lr.end, t)

\* The range Read leaves in the reader, and its decision to throttle.
RangeAfter(rd, t) ==
    IF rd.rateLimit > 0 /\ ~(IsZero(rd.limitRange.start) \/ IsZero(rd.limitRange.end))
    THEN RollRange(rd.limitRange, t)
    ELSE rd.limitRange

\* A zero window read as "never" instead of "always".
LimitZeroWindowOff(rd, t) ==
    /\ rd.rateLimit > 0
    /\ ~(IsZero(rd.limitRange.start) \/ IsZero(rd.limitRange.end))
    /\ Contains(RollRange(rd.limitRange, t), t)

\* The window forgotten: throttle whenever a rate limit is set.
LimitIgnoresWindow(rd, t) == rd.rateLimit > 0

Limit(rd, t) ==
    /\ rd.rateLimit > 0
    /\ \/ IsZero(rd.limitRange.start) \/ IsZero(rd.limitRange.end)
       \/ Contains(RollRange(rd.limitRange, t), t)

\* The buffer handed on at its full length, whatever the burst.
ClampBufNever(lenp, burst) == lenp

\* p = p[:lc.burstLimit] when the buffer is longer than the burst.
ClampBuf(lenp, burst) == IF lenp > burst THEN burst ELSE lenp

\* limiter.WaitN(ctx, n) up to the point where it blocks or returns.
WaitNEntry(rd, n, cancelledCtx) ==
    IF n > rd.burstLimit THEN "ExceedsBurst"
    ELSE IF rd.ctx \in cancelledCtx THEN "Canceled"
    ELSE IF rd.tokens - n >= 0 THEN "go"
    ELSE "block"

\* A wait that takes nothing from the bucket.
ReserveNothing(rd, n) == rd

\* WaitN reserves its n tokens at once, leaving the bucket in debt if it has
\* to wait for them.
Reserve(rd, n) == [rd EXCEPT !.tokens = rd.tokens - n]

\* A return that leaves the mutex held, as a return path without the deferred
\* Unlock would.
ReturnLocked(n, err) ==
    /\ ret' = [n |-> n, err |-> err]
    /\ delivered' = delivered + n
    /\ locked' = TRUE
    /\ pc' = "idle"
    /\ p' = 0
    /\ bodyDone' = (err # "nil")
    /\ committed' = reader'.status

\* Read returns n, err; the deferred lc.Unlock() runs.
Return(n, err) ==
    /\ ret' = [n |-> n, err |-> err]
    /\ delivered' = delivered + n
    /\ locked' = FALSE
    /\ pc' = "idle"
    /\ p' = 0
    /\ bodyDone' = (err # "nil")
    /\ committed' = reader'.status

\* Read from lc.Lock() on, by a caller that finds no Read of its own thread of
\* calls in progress (q = 0) or by one of the callers blocked in lc.Lock()
\* (q = 1).
ReadFrom(q) ==
    /\ MayLock
    /\ IF q = 0 THEN pc = "idle" /\ ~bodyDone /\ nreads < MaxReads ELSE lockq > 0
    /\ reader.ReadCloser # 0
    /\ lockq' = lockq - q
    /\ \E lenp \in bufs :
        LET rd1 == [reader EXCEPT !.status = SetStart(reader.status, now)]
            rd2 == EnsureLimiter(rd1, lenp)
            limit == Limit(rd2, now)
            rd3 == [rd2 EXCEPT !.limitRange = RangeAfter(rd2, now)]
            n == IF limit THEN ClampBuf(lenp, rd3.burstLimit) ELSE lenp
            w == IF limit THEN WaitNEntry(rd3, n, cancelled) ELSE "go"
        IN /\ nreads' = nreads + 1
           /\ buf' = lenp
           /\ waited' = limit
           /\ ulRet' = [n |-> 0, err |-> "nil"]
           /\ IF w \in {"ExceedsBurst", "Canceled"}
              THEN /\ reader' = rd3
                   /\ Return(0, w)
              ELSE /\ reader' = IF limit THEN Reserve(rd3, n) ELSE rd3
                   /\ locked' = TRUE
                   /\ p' = n
                   /\ pc' = IF w = "block" THEN "waiting" ELSE "reading"
                   /\ UNCHANGED <<ret, delivered, bodyDone, committed>>
    /\ UNCHANGED <<sent, consumed, prog, bufs, oauth>>
    /\ UNCHANGED <<now, nticks, transport, between, readerInit, nreq, closed, cancelled,
                   rpc>>

\* Read called while the caller's earlier calls have returned.
ReadBegin == ReadFrom(0)

\* Another caller calls Read on the body installed and blocks in lc.Lock().
ReadCall ==
    /\ reader.ReadCloser # 0
    /\ ~bodyDone
    /\ nreads + lockq < MaxReads
    /\ lockq' = lockq + 1
    /\ UNCHANGED <<now, nticks, bodyDone, transport, between, readerInit, reader, locked,
                   pc, p, nreq, closed, cancelled, rpc, nreads, ret, waited, delivered,
                   ulRet, committed, sent, consumed, prog, buf, bufs, oauth>>

\* lc.Lock() returns in a blocked caller, whose Read then runs.
ReadAfterLock == ReadFrom(1)

\* The timer of WaitN fires: the reserved tokens have accumulated.
WaitDone ==
    /\ pc = "waiting"
    /\ reader.tokens >= 0
    /\ pc' = "reading"
    /\ UNCHANGED <<sent, consumed, prog, buf, bufs, lockq, oauth>>
    /\ UNCHANGED <<bodyDone, now, nticks, transport, between, readerInit, reader, locked, p, nreq,
                   closed, cancelled, rpc, nreads, ret, waited, delivered, ulRet, committed>>

\* A wait under context.Background(), as in earlier versions of Read: the
\* cancellation never reaches it.
WaitCancelledNever ==
    /\ FALSE
    /\ UNCHANGED vars

\* ctx.Done() wakes WaitN: the reservation is cancelled, Read returns 0, ctx.Err().
WaitCancelled ==
    /\ pc = "waiting"
    /\ reader.ctx \in cancelled
    /\ reader' = [reader EXCEPT !.tokens = Min(reader.burstLimit, reader.tokens + p)]
    /\ Return(0, "Canceled")
    /\ UNCHANGED <<sent, consumed, prog, buf, bufs, lockq, oauth>>
    /\ UNCHANGED <<now, nticks, transport, between, readerInit, nreq, closed, cancelled,
                   rpc, nreads, waited, ulRet>>

\* Status after `read` bytes were added to it at instant t, TimeRem being tr.
AddBytes(st, read) == [st EXCEPT !.Bytes = st.Bytes + read]

\* The update without the clamp to TotalBytes.
RecordReadNoClamp(st, t, tr) ==
    [st EXCEPT !.Progress = IF st.TotalBytes > 0 THEN ProgressOf(st.Bytes, st.TotalBytes)
                            ELSE ProgressNA,
               !.TimeRem = IF st.TotalBytes > 0 THEN tr ELSE st.TimeRem,
               !.AvgRate = AvgRateOf(st.Bytes, st.Start, t)]

RecordRead(st, t, tr) ==
    LET b == IF st.TotalBytes > 0 /\ st.Bytes > st.TotalBytes THEN st.TotalBytes
             ELSE st.Bytes
    IN [st EXCEPT !.Bytes = b,
                  !.Progress = IF st.TotalBytes > 0 THEN ProgressOf(b, st.TotalBytes)
                               ELSE ProgressNA,
                  !.TimeRem = IF st.TotalBytes > 0 THEN tr ELSE st.TimeRem,
                  !.AvgRate = AvgRateOf(b, st.Start, t)]

\* A Read that reports no bytes whenever it reports an error.
ReadFailedDropsBytes(r) == [n |-> 0, err |-> r.err]

\* A Read that hides the end of the stream from its caller.
ReadFailedHidesEOF(r) == [n |-> r.n, err |-> IF r.err = "EOF" THEN "nil" ELSE r.err]

\* What Read returns when the underlying read failed: its n and its error.
ReadFailed(r) == [n |-> r.n, err |-> r.err]

\* lc.ReadCloser.Read(p) returns n, err; an error ends the call at once.
UnderlyingRead ==
    /\ pc = "reading"
    /\ \E r \in ReadOutcomes(p) :
        /\ ulRet' = r
        /\ consumed' = consumed + r.n
        /\ IF r.err # "nil"
           THEN /\ reader' = reader
                /\ Return(ReadFailed(r).n, ReadFailed(r).err)
           ELSE /\ reader' = [reader EXCEPT !.status = AddBytes(reader.status, r.n)]
                /\ pc' = "record"
                /\ UNCHANGED <<ret, delivered, locked, p, bodyDone, committed>>
    /\ UNCHANGED <<sent, prog, buf, bufs, lockq, oauth>>
    /\ UNCHANGED <<now, nticks, transport, between, readerInit, nreq, closed, cancelled,
                   rpc, nreads, waited>>

\* The rest of the status update, then Read returns read, nil.
ReadEnd ==
    /\ pc = "record"
    /\ \E tr \in TimeRemOf(reader.status.TotalBytes,
                           Min(reader.status.Bytes, reader.status.TotalBytes),
                           reader.status.AvgRate) :
        reader' = [reader EXCEPT !.status = RecordRead(reader.status, now, tr)]
    /\ Return(ulRet.n, "nil")
    /\ UNCHANGED <<sent, consumed, prog, buf, bufs, lockq, oauth>>
    /\ UNCHANGED <<now, nticks, transport, between, readerInit, nreq, closed, cancelled,
                   rpc, nreads, waited, ulRet>>

\* The HTTP layer closes the body it was handed with request k.  Every payload
\* request was handed the same object, &t.reader, and limitChecker.Close
\* closes the stream that is installed when it runs (it takes no lock).
CloseBody(k) ==
    /\ k \in 1..nreq
    /\ reader.ReadCloser # 0
    /\ reader.ReadCloser \notin closed
    /\ closed' = closed \cup {reader.ReadCloser}
    /\ UNCHANGED <<sent, consumed, prog, buf, bufs, lockq, oauth>>
    /\ UNCHANGED <<bodyDone, now, nticks, transport, between, readerInit, reader, locked, pc, p, nreq,
                   cancelled, rpc, nreads, ret, waited,
                   delivered, ulRet, committed>>

\* The body of any of the requests sent so far is closed.
Close == \E k \in 1..nreq : CloseBody(k)

\* The context of a request that was sent is cancelled.
Cancel ==
    /\ \E k \in (1..nreq) \ cancelled : cancelled' = cancelled \cup {k}
    /\ UNCHANGED <<sent, consumed, prog, buf, bufs, lockq, oauth>>
    /\ UNCHANGED <<bodyDone, now, nticks, transport, between, readerInit, reader, locked, pc, p, nreq,
                   closed, rpc, nreads, ret, waited,
                   delivered, ulRet, committed>>

\* ------------------------------------------------------------ progress task
\* Progress.Output calls GetMonitorStatus, which first has to lock the reader.
Output ==
    /\ rpc = "idle"
    /\ rpc' = "locking"
    /\ UNCHANGED <<sent, consumed, prog, buf, bufs, lockq, oauth>>
    /\ UNCHANGED <<bodyDone, now, nticks, transport, between, readerInit, reader, locked, pc, p,
                   nreq, closed, cancelled, nreads, ret, waited, delivered, ulRet,
                   committed>>

\* The Status that GetMonitorStatus returns when it runs in this state.
Snapshot == reader.status

\* The copy taken without the lock, as monitor.Status of the first version did.
GetMonitorStatusNoLock ==
    /\ rpc = "locking"
    /\ rpc' = "idle"
    /\ UNCHANGED <<sent, consumed, prog, buf, bufs, lockq, oauth>>
    /\ UNCHANGED <<bodyDone, now, nticks, transport, between, readerInit, reader, locked,
                   pc, p, nreq, closed, cancelled, nreads, ret, waited, delivered, ulRet,
                   committed>>

\* Lock, copy the status, unlock; Output prints the copy.
GetMonitorStatus ==
    /\ rpc = "locking"
    /\ MayLock
    /\ rpc' = "idle"
    /\ UNCHANGED <<sent, consumed, prog, buf, bufs, lockq, oauth>>
    /\ UNCHANGED <<bodyDone, now, nticks, transport, between, readerInit, reader, locked, pc, p,
                   nreq, closed, cancelled, nreads, ret, waited, delivered, ulRet,
                   committed>>

\* ------------------------------------------------------------ Progress.Run
\* Everything but the progress task.
uploadVars ==
    <<now, nticks, bodyDone, transport, between, readerInit, reader, locked, pc, p, nreq,
      closed, cancelled, nreads, ret, waited, delivered, ulRet, committed, sent,
      consumed, buf, bufs, lockq, oauth>>

\* The ticker puts a tick in its channel (capacity 1; a tick that finds the
\* channel full is dropped).
TickerFires ==
    /\ ~prog.ticker
    /\ prog.ticks < MaxEvents
    /\ prog' = [prog EXCEPT !.ticker = TRUE]
    /\ UNCHANGED <<uploadVars, rpc>>

\* signal.Notify relays a USR1 to signalChan (capacity 1, sent without blocking).
SignalArrives ==
    /\ ~prog.signal
    /\ prog.signals < MaxEvents
    /\ prog' = [prog EXCEPT !.signal = TRUE]
    /\ UNCHANGED <<uploadVars, rpc>>

\* The context handed to Run is cancelled.
CancelRun ==
    /\ ~prog.done
    /\ prog' = [prog EXCEPT !.done = TRUE, !.outputsAtDone = prog.outputs]
    /\ UNCHANGED <<uploadVars, rpc>>

\* Run is at its select, not inside a call of Output.
AtSelect == prog.running /\ rpc = "idle"

\* A Run that prints on every tick, quiet or not.
RunOnTickIgnoresQuiet ==
    /\ AtSelect
    /\ prog.ticker
    /\ prog' = [prog EXCEPT !.ticker = FALSE, !.ticks = @ + 1, !.outputs = @ + 1]
    /\ rpc' = "locking"
    /\ UNCHANGED uploadVars

\* case <-ticker.C: Output unless quiet.
RunOnTick ==
    /\ AtSelect
    /\ prog.ticker
    /\ prog' = [prog EXCEPT !.ticker = FALSE, !.ticks = @ + 1,
                            !.outputs = IF prog.quiet THEN @ ELSE @ + 1]
    /\ rpc' = IF prog.quiet THEN rpc ELSE "locking"
    /\ UNCHANGED uploadVars

\* case <-signalChan: Output.
RunOnSignal ==
    /\ AtSelect
    /\ prog.signal
    /\ prog' = [prog EXCEPT !.signal = FALSE, !.signals = @ + 1, !.outputs = @ + 1]
    /\ rpc' = "locking"
    /\ UNCHANGED uploadVars

\* case <-ctx.Done(): return.  When several cases are ready select takes any
\* one of them.
RunOnDone ==
    /\ AtSelect
    /\ prog.done
    /\ prog' = [prog EXCEPT !.running = FALSE]
    /\ UNCHANGED <<uploadVars, rpc>>

\* ---------------------------------------------------- BuildOAuthHTTPClient
\* Everything but the OAuth flow.
flowVars ==
    <<now, nticks, bodyDone, transport, between, readerInit, reader, locked, pc, p, nreq,
      closed, cancelled, rpc, nreads, ret, waited, delivered, ulRet, committed, sent,
      consumed, prog, buf, bufs, lockq>>

\* The token cache holds a token: the client is returned without any flow.
UseCachedToken ==
    /\ oauth.main = "start"
    /\ oauth' = [oauth EXCEPT !.main = "client"]
    /\ UNCHANGED flowVars

\* startCallbackWebServer: make ctx2 and the channels, start the watcher and
\* the server goroutines, return callbackCh; the deferred close(quitChan)
\* runs at this return.  BuildOAuthHTTPClient then opens the browser and
\* waits at <-callbackCh.
StartCallbackWebServer ==
    /\ oauth.main = "start"
    /\ oauth' = [oauth EXCEPT !.main = "waiting", !.watcher = "select",
                              !.serve = "listening", !.quit = TRUE]
    /\ UNCHANGED flowVars

\* ctx2 is done: its timeout has passed or the caller's context is cancelled.
Ctx2Done == oauth.elapsed = CallbackTimeout \/ oauth.ctxDone

\* Time passes on the timer of ctx2.
TimePasses ==
    /\ oauth.main # "start"
    /\ oauth.elapsed < CallbackTimeout
    /\ oauth' = [oauth EXCEPT !.elapsed = @ + 1]
    /\ UNCHANGED flowVars

\* The caller's context is cancelled.
CancelContext ==
    /\ ~oauth.ctxDone
    /\ oauth' = [oauth EXCEPT !.ctxDone = TRUE]
    /\ UNCHANGED flowVars

\* The watcher's select takes case <-ctx2.Done(): srv.Shutdown.
WatcherOnTimeout ==
    /\ oauth.watcher = "select"
    /\ Ctx2Done
    /\ oauth' = [oauth EXCEPT !.watcher = "shutdown", !.down = TRUE]
    /\ UNCHANGED flowVars

\* The watcher's select takes case <-quitChan: return.  When both cases are
\* ready select takes either.
WatcherOnQuit ==
    /\ oauth.watcher = "select"
    /\ oauth.quit
    /\ oauth' = [oauth EXCEPT !.watcher = "returned"]
    /\ UNCHANGED flowVars

\* What a request to the callback server may carry: code and the state sent
\* out, code and another state, or no code or no state.
CallbackKinds == {"code", "otherState", "empty"}

\* The handler serves a request: with code and state it sends them on
\* callbackCh, where BuildOAuthHTTPClient receives them, and shuts the server
\* down; otherwise it does nothing.
CallbackArrives ==
    /\ oauth.serve = "listening"
    /\ ~oauth.down
    /\ oauth.main = "waiting"
    /\ oauth.requests < MaxEvents
    /\ \E kind \in CallbackKinds :
        oauth' = IF kind = "empty"
                 THEN [oauth EXCEPT !.requests = @ + 1]
                 ELSE [oauth EXCEPT !.requests = @ + 1, !.got = kind,
                                    !.main = "received", !.down = TRUE]
    /\ UNCHANGED flowVars

\* ListenAndServe returns once the server is shut down; the deferred
\* close(callbackCh) runs.
ServeReturns ==
    /\ oauth.serve = "listening"
    /\ oauth.down
    /\ oauth' = [oauth EXCEPT !.serve = "returned", !.ch = "closed"]
    /\ UNCHANGED flowVars

\* cbs = <-callbackCh on the closed channel yields the zero CallbackStatus,
\* whose state is not randState: an error is returned.
ReceiveClosed ==
    /\ oauth.main = "waiting"
    /\ oauth.ch = "closed"
    /\ oauth' = [oauth EXCEPT !.got = "zero", !.main = "error"]
    /\ UNCHANGED flowVars

\* After the receive: the state is compared, the code exchanged for a token
\* (which may fail) and the token stored (which may fail).
FinishFlow ==
    /\ oauth.main = "received"
    /\ \E r \in (IF oauth.got = "code" THEN {"client", "error"} ELSE {"error"}) :
        oauth' = [oauth EXCEPT !.main = r]
    /\ UNCHANGED flowVars

\* --------------------------------------------------------------------- clock
\* Time passes, by a tick or (when a window is configured) by a day; the bucket
\* refills up to its burst.  A waiter whose context is cancelled wakes before
\* the clock moves on, and the status update after the underlying read takes
\* no time.
Refill(rd, d) ==
    IF rd.limiter THEN [rd EXCEPT !.tokens = Min(rd.burstLimit, rd.tokens + d * Rate(rd))]
    ELSE rd

Tick ==
    /\ nticks < MaxTicks
    /\ pc # "record"
    /\ ~(pc = "waiting" /\ reader.ctx \in cancelled)
    /\ \E d \in (IF between = <<>> THEN {1} ELSE {1, TicksPerDay}) :
        /\ now' = now + d
        /\ reader' = Refill(reader, d)
    /\ nticks' = nticks + 1
    /\ UNCHANGED <<sent, consumed, prog, buf, bufs, lockq, oauth>>
    /\ UNCHANGED <<bodyDone, transport, between, readerInit, locked, pc, p, nreq, closed,
                   cancelled, rpc, nreads, ret, waited,
                   delivered, ulRet, committed>>

Next ==
    \/ RoundTrip
    \/ ReadBegin
    \/ WaitDone
    \/ WaitCancelled
    \/ UnderlyingRead
    \/ ReadEnd
    \/ Close
    \/ Cancel
    \/ Output
    \/ GetMonitorStatus
    \/ Tick

Spec == Init /\ [][Next]_vars

\* The first payload request of an upload, which seeds the reader.
FirstRoundTrip == RoundTrip /\ ~readerInit

\* One request's upload alone (no replacement, no cancellation, no Close, no
\* progress task), which is all that reads or writes the window and the clock.
NextUpload ==
    \/ FirstRoundTrip
    \/ ReadBegin
    \/ WaitDone
    \/ UnderlyingRead
    \/ ReadEnd
    \/ Tick

SpecWindow == InitWindow /\ [][NextUpload]_vars

\* One upload among the other requests the same client sends, at one instant:
\* RoundTrip reads no clock.
NextRequests ==
    \/ RoundTripAny
    \/ ReadBegin
    \/ UnderlyingRead
    \/ ReadEnd

SpecRequests == Init /\ [][NextRequests]_vars

\* The upload and the cancellation of its requests; Close and the progress
\* task touch nothing a Read waits for.
NextCancel ==
    \/ RoundTrip
    \/ ReadBegin
    \/ WaitDone
    \/ WaitCancelled
    \/ UnderlyingRead
    \/ ReadEnd
    \/ Cancel
    \/ Tick

\* The Go scheduler runs every goroutine that can run: a Read that can take
\* its next step takes it.
FairSpec ==
    /\ Init
    /\ [][NextCancel]_vars
    /\ WF_vars(WaitDone)
    /\ WF_vars(WaitCancelled)
    /\ WF_vars(UnderlyingRead)
    /\ WF_vars(ReadEnd)

\* The progress task alone, quiet or not, while no Read holds the reader.
InitProgress == InitWith({1}, {<<>>}, {0}, {0}, BOOLEAN)

NextProgress ==
    \/ TickerFires
    \/ SignalArrives
    \/ CancelRun
    \/ RunOnTick
    \/ RunOnSignal
    \/ RunOnDone
    \/ GetMonitorStatus

SpecProgress == InitProgress /\ [][NextProgress]_vars

\* One upload read by several callers at once: besides the caller whose Reads
\* follow one another, callers that call Read while a Read is in progress.
NextReaders ==
    \/ FirstRoundTrip
    \/ ReadBegin
    \/ ReadCall
    \/ ReadAfterLock
    \/ WaitDone
    \/ UnderlyingRead
    \/ ReadEnd
    \/ Tick

SpecReaders == Init /\ [][NextReaders]_vars

\* Every operation that takes the reader's mutex, with Close, on a throttled
\* upload of unknown size read through buffers of one length.  A goroutine
\* that can run does run, and time passes.
InitLocks == InitFor({1}, {<<>>}, {1}, {0}, {FALSE}, {kbps2bpsMultiplier})

NextLocks ==
    \/ RoundTrip
    \/ ReadBegin
    \/ ReadCall
    \/ ReadAfterLock
    \/ WaitDone
    \/ UnderlyingRead
    \/ ReadEnd
    \/ Close
    \/ Output
    \/ GetMonitorStatus
    \/ Tick

FairLocks ==
    /\ InitLocks
    /\ [][NextLocks]_vars
    /\ WF_vars(WaitDone)
    /\ WF_vars(UnderlyingRead)
    /\ WF_vars(ReadEnd)
    /\ WF_vars(Tick)
    /\ WF_vars(ReadAfterLock)
    /\ WF_vars(GetMonitorStatus)

\* One throttled upload whose reader may be offered an empty buffer, as
\* io.Reader allows, besides the non-empty ones.
InitAnyBuf ==
    InitFor({1}, {<<>>}, {1}, {3 * kbps2bpsMultiplier}, {FALSE}, {0, kbps2bpsMultiplier})

SpecAnyBuf == InitAnyBuf /\ [][NextUpload]_vars

\* The OAuth flow alone.  Every goroutine that can run does run, and time
\* passes.
NextOAuth ==
    \/ UseCachedToken
    \/ StartCallbackWebServer
    \/ TimePasses
    \/ CancelContext
    \/ WatcherOnTimeout
    \/ WatcherOnQuit
    \/ CallbackArrives
    \/ ServeReturns
    \/ ReceiveClosed
    \/ FinishFlow

FairOAuth ==
    /\ Init
    /\ [][NextOAuth]_vars
    /\ WF_vars(TimePasses)
    /\ WF_vars(WatcherOnTimeout \/ WatcherOnQuit)
    /\ WF_vars(ServeReturns)
    /\ WF_vars(ReceiveClosed)
    /\ WF_vars(FinishFlow)

\* ------------------------------------------------------------------- claims
\* A step in which a Read call returns to its caller.
ReadReturns == (nreads' = nreads + 1 \/ pc # "idle") /\ pc' = "idle"

\* C1: with rateLimit = R > 0 and a zero-value window, the bytes returned by
\* Read within t ticks of the first read never exceed burst + R*125*t, so N
\* bytes take at least (N - burst)/(R*125) ticks.
C1_RateEnforcement ==
    (transport.rateLimit > 0 /\ between = <<>> /\ ~IsZero(reader.status.Start))
        => delivered <= reader.burstLimit
                        + transport.rateLimit * kbps2bpsMultiplier
                          * (now - reader.status.Start)

\* More than a burst was delivered, and exactly as fast as the rate allows.
C1_Witness ==
    /\ transport.rateLimit > 0
    /\ reader.burstLimit > 0
    /\ delivered > reader.burstLimit
    /\ delivered = reader.burstLimit
                   + transport.rateLimit * kbps2bpsMultiplier * (now - reader.status.Start)

\* C2: a Read waits on the token bucket iff rateLimit > 0 and the window is
\* zero-valued or contains the current instant.
C2_ThrottleDecision ==
    [][nreads' = nreads + 1 =>
        (waited' <=> /\ transport.rateLimit > 0
                     /\ \/ reader'.limitRange = ZeroRange
                        \/ /\ reader'.limitRange.start < now
                           /\ now < reader'.limitRange.end)]_vars

\* A Read inside a configured window is blocked in the token wait.
C2_Witness == between # <<>> /\ waited /\ pc = "waiting"

\* The time of day of an instant, and whether it lies strictly inside the
\* daily interval from clock time s to clock time e.
ClockOf(t) == t % TicksPerDay
InsideDaily(c, s, e) == IF s < e THEN s < c /\ c < e ELSE c > s \/ c < e

\* C3: with rateLimit > 0 and a parsed window, a Read at any instant from
\* configuration time on is throttled iff the time of day lies inside the
\* configured daily interval (instants exactly on a boundary left aside).
C3_DailyWindow ==
    [][(/\ nreads' = nreads + 1
        /\ transport.rateLimit > 0
        /\ between # <<>>
        /\ between[1] # between[2]
        /\ ClockOf(now) \notin {between[1], between[2]})
       => (waited' <=> InsideDaily(ClockOf(now), between[1], between[2]))]_vars

\* C4 as claimed: between calls, Status.Bytes is at most Status.TotalBytes.
C4_BytesAtMostTotal == ~locked => reader.status.Bytes <= reader.status.TotalBytes

\* C4: between calls, Status.Bytes is at most Status.TotalBytes whenever
\* TotalBytes > 0 (a file size of 0 means unknown, and nothing is clamped).
C4_BytesAtMostKnownTotal ==
    (~locked /\ reader.status.TotalBytes > 0)
        => reader.status.Bytes <= reader.status.TotalBytes

\* More bytes than the file size were returned, and Bytes stands at the size.
C4_Witness ==
    /\ ~locked
    /\ reader.status.TotalBytes > 0
    /\ delivered > reader.status.TotalBytes
    /\ reader.status.Bytes = reader.status.TotalBytes

\* C5: every Read that returns n bytes, with or without an error, leaves
\* Bytes at min(TotalBytes, previous Bytes + n).
C5_EveryByteCounted ==
    [][(ReadReturns /\ reader.status.TotalBytes > 0)
       => reader'.status.Bytes
          = Min(reader.status.TotalBytes, committed.Bytes + ret'.n)]_vars

\* C6: a later payload RoundTrip, which replaces the underlying stream, leaves
\* Bytes and Start as they were.
C6_CarryOver ==
    [][(nreq >= 1 /\ nreq' = nreq + 1)
       => /\ reader'.status.Bytes = reader.status.Bytes
          /\ reader'.status.Start = reader.status.Start]_vars

\* The stream was replaced after a Read that ended it, with bytes on record.
C6_Witness ==
    /\ nreq = 2
    /\ ~bodyDone
    /\ ret.err = "EOF"
    /\ reader.status.Bytes > 0
    /\ ~IsZero(reader.status.Start)

\* Progress is the percentage of the Bytes and TotalBytes it stands beside.
ProgressConsistent(st) ==
    \/ st.Progress = ProgressEmpty /\ st.Bytes = 0
    \/ st.TotalBytes > 0 /\ st.Progress = ProgressOf(st.Bytes, st.TotalBytes)
    \/ st.TotalBytes = 0 /\ st.Progress = ProgressNA

\* C7: every snapshot is the status as it stood when the last call returned,
\* never a half-updated one, and its Progress matches its Bytes and TotalBytes.
C7_SnapshotNotTorn ==
    [][(rpc = "locking" /\ rpc' = "idle")
       => Snapshot = committed /\ ProgressConsistent(Snapshot)]_vars

\* A snapshot is asked for while a Read is half way through its update.
C7_Witness == rpc = "locking" /\ pc = "record" /\ reader.status # committed

\* C8: GetMonitorStatus never blocks on I/O: whenever the progress task is at
\* its lock while a Read is suspended in the token wait or in the underlying
\* read, GetMonitorStatus can take its step and return.
C8_NeverBlocks ==
    (rpc = "locking" /\ pc \in {"waiting", "reading"}) => ENABLED GetMonitorStatus

\* C9: a Read blocked in the token wait whose context is cancelled returns 0
\* and the cancellation error.
C9_CancelledWaitReturns ==
    /\ [][(pc = "waiting" /\ reader.ctx \in cancelled /\ reader.tokens < 0
           /\ pc' # "waiting")
          => pc' = "idle" /\ ret' = [n |-> 0, err |-> "Canceled"]]_vars
    /\ (pc = "waiting" /\ reader.ctx \in cancelled /\ reader.tokens < 0)
           ~> (pc = "idle" /\ ret.err = "Canceled")

\* A Read is blocked for want of tokens and its context has been cancelled.
C9_Witness == pc = "waiting" /\ reader.ctx \in cancelled /\ reader.tokens < 0

\* C10: Read returns the error of the underlying read or of the token wait
\* unchanged, and calls the underlying stream at most once: after a failure
\* it returns at once.
C10_ErrorsUnchanged ==
    /\ [](pc = "reading" => ulRet.err = "nil")
    /\ [][(pc = "reading" /\ ulRet'.err # "nil") => pc' = "idle" /\ ret' = ulRet']_vars
    /\ [][(pc = "waiting" /\ pc' = "idle") => ret' = [n |-> 0, err |-> "Canceled"]]_vars
    /\ [][(pc = "record" /\ pc' = "idle") => ret' = [n |-> ulRet.n, err |-> "nil"]]_vars

\* The last Read passed on the end of the stream together with its bytes.
C10_Witness == pc = "idle" /\ ret.err = "EOF" /\ ret.n > 0 /\ ret = ulRet

\* The header test of the payload requests, read off the header alone.
MatchesUpload(h) ==
    \/ Len(h.ct) > 0
       /\ h.ct[1] \in {"multipart/related", "video", "application/octet-stream"}
    \/ h.xuct = <<"application/octet-stream">>

\* C11: RoundTrip puts the rate-limited reader in place of the request body
\* iff the Content-Type starts with multipart/related, video or
\* application/octet-stream or X-Upload-Content-Type is application/octet-stream;
\* any other request is forwarded with its own body, and the reader (its
\* stream and status) and the initialised flag stay as they were.
C11_PayloadDetection ==
    [][(sent' # sent \/ nreq' # nreq) =>
        IF MatchesUpload(sent'.hdr)
        THEN /\ sent'.body = "reader"
             /\ nreq' = nreq + 1
             /\ reader'.ReadCloser = nreq'
        ELSE /\ sent'.body = "own"
             /\ nreq' = nreq
             /\ reader' = reader
             /\ readerInit' = readerInit
             /\ committed' = committed]_vars

\* A request that only mentions video in its Content-Type went through with
\* its own body while an upload with bytes on record was under way.
C11_Witness ==
    /\ sent.body = "own"
    /\ sent.hdr.ct = <<"text/plain", "; video">>
    /\ sent.hdr.xuct = <<"video", "/mp4">>
    /\ readerInit
    /\ reader.status.Bytes > 0

\* C12: the reader is initialised exactly once: the first payload request
\* seeds totalBytes, rate limit, window and context from the transport, and a
\* later payload request changes none of them.
C12_SeededOnce ==
    /\ [](readerInit <=> nreq >= 1)
    /\ [](readerInit => /\ reader.status.TotalBytes = transport.filesize
                        /\ reader.rateLimit = transport.rateLimit)
    /\ [][(nreq = 0 /\ nreq' = 1)
          => /\ reader'.status.TotalBytes = transport.filesize
             /\ reader'.rateLimit = transport.rateLimit
             /\ reader'.limitRange = transport.limitRange
             /\ reader'.ctx = 1]_vars
    /\ [][(nreq >= 1 /\ nreq' = nreq + 1)
          => /\ readerInit /\ readerInit'
             /\ reader'.status.TotalBytes = reader.status.TotalBytes
             /\ reader'.rateLimit = reader.rateLimit
             /\ reader'.limitRange = reader.limitRange
             /\ reader'.ctx = reader.ctx]_vars

\* A second payload request has installed its body in the seeded reader.
C12_Witness ==
    /\ nreq = 2
    /\ reader.ReadCloser = 2
    /\ readerInit
    /\ reader.ctx = 1
    /\ reader.status.TotalBytes > 0

\* C13: over any sequence of Read calls and body replacements the Bytes that
\* the status holds between calls never decreases.
C13_BytesMonotone == [][committed'.Bytes >= committed.Bytes]_vars

\* Bytes grew up to the file size across a body replacement.
C13_Witness ==
    /\ ~locked
    /\ nreq = 2
    /\ nreads = 2
    /\ committed.TotalBytes > 0
    /\ committed.Bytes = committed.TotalBytes

\* C14: every parsed range, one with equal start and end clock times
\* included, has its end strictly after its start, also after Read has rolled
\* it forward.
C14_EndAlwaysAfterStart ==
    (readerInit /\ between # <<>>)
        => /\ Before(transport.limitRange.start, transport.limitRange.end)
           /\ Before(reader.limitRange.start, reader.limitRange.end)

\* A Read starts with a rate limit and a parsed window in force.
WindowRead == nreads' = nreads + 1 /\ transport.rateLimit > 0 /\ between # <<>>

\* C15 as claimed: the containment check is true iff start <= now < end, so a
\* Read exactly at the start instant is throttled.
C15_HalfOpen ==
    [][WindowRead =>
        (waited' <=> /\ reader'.limitRange.start <= now
                     /\ now < reader'.limitRange.end)]_vars

\* C15: the containment check is true iff start < now < end: a Read exactly
\* at the start instant, like one exactly at the end instant, is not throttled.
C15_OpenInterval ==
    [][WindowRead =>
        /\ waited' <=> (reader'.limitRange.start < now /\ now < reader'.limitRange.end)
        /\ now = reader'.limitRange.start => ~waited'
        /\ now = reader'.limitRange.end => ~waited']_vars

\* A Read exactly at the start instant of a non-empty window goes unthrottled.
C15_Witness ==
    /\ transport.rateLimit > 0
    /\ between # <<>>
    /\ pc = "reading"
    /\ ~waited
    /\ now = reader.limitRange.start
    /\ reader.limitRange.start < reader.limitRange.end

\* C16: a window whose end clock time is earlier than its start clock time,
\* parsed on day D, ends exactly one day after the date of its start; a Read
\* is throttled late on day D after the start time and early on day D+1
\* before the end time, and not throttled on day D between the two times.
C16_MidnightWindow ==
    /\ []((between # <<>> /\ between[2] < between[1])
            => /\ transport.limitRange.start = Date(ParseDay, between[1])
               /\ transport.limitRange.end = Date(ParseDay + 1, between[2]))
    /\ [][(WindowRead /\ between[2] < between[1])
          => /\ (DayOf(now) = ParseDay /\ ClockOf(now) > between[1]) => waited'
             /\ (DayOf(now) = ParseDay + 1 /\ ClockOf(now) < between[2]) => waited'
             /\ (/\ DayOf(now) = ParseDay
                 /\ ClockOf(now) > between[2]
                 /\ ClockOf(now) < between[1]) => ~waited']_vars

\* A Read early on the day after the parse, before the end time, is throttled.
C16_Witness ==
    /\ between = <<4, 2>>
    /\ transport.rateLimit > 0
    /\ now = Date(ParseDay + 1, 1)
    /\ pc \in {"waiting", "reading"}
    /\ waited
    /\ reader.limitRange = transport.limitRange

\* C17: the first Read of a window parsed on day D, coming on day D+2 two
\* days or more after the window's start, is throttled iff it would be under
\* the window parsed afresh from the same string at that instant.
C17_SelfRoll ==
    [][(/\ WindowRead
        /\ nreads = 0
        /\ DayOf(now) = ParseDay + 2
        /\ now - transport.limitRange.start >= 2 * TicksPerDay)
       => (waited' <=> Contains(ParseLimitBetween(between, now).lr, now))]_vars

\* What ticks and signals ask of Run: a tick it receives makes it call Output
\* iff quiet is off, a signal it receives makes it call Output in either mode.
OutputPerEvent ==
    /\ [][prog'.ticks = prog.ticks + 1
          => prog'.outputs = prog.outputs + (IF prog.quiet THEN 0 ELSE 1)]_vars
    /\ [][prog'.signals = prog.signals + 1 => prog'.outputs = prog.outputs + 1]_vars
    /\ [](prog.outputs = prog.signals + (IF prog.quiet THEN 0 ELSE prog.ticks))

\* C18 as claimed: a line per tick iff quiet is off, a line per signal
\* received, and no line once the context has been cancelled.
C18_NothingAfterCancel ==
    /\ OutputPerEvent
    /\ [][prog.done => prog'.outputs = prog.outputs]_vars

\* C18: a line per tick iff quiet is off, a line per signal received, and no
\* line once Run has returned; between the cancellation and the return Run may
\* still print for the ticks and signals that select takes first.
C18_NothingAfterReturn ==
    /\ OutputPerEvent
    /\ [][~prog.running => prog'.outputs = prog.outputs /\ ~prog'.running]_vars
    /\ [](~prog.running => prog.done)

\* A quiet Run has returned after receiving a tick, for which it printed
\* nothing, and after printing for a signal that it took when its context had
\* already been cancelled.
C18_Witness ==
    /\ prog.quiet
    /\ ~prog.running
    /\ rpc = "idle"
    /\ prog.ticks > 0
    /\ prog.signals > 0
    /\ prog.outputs > prog.outputsAtDone

C20_DeliveredIsConsumed ==
    /\ [](consumed = delivered + (IF pc = "record" THEN ulRet.n ELSE 0))
    /\ [][ReadReturns => ret'.n = consumed' - delivered]_vars

\* After a Read that delivered bytes, a Read that waited for tokens was
\* cancelled: it took nothing from the stream and returned nothing.
C20_Witness ==
    /\ pc = "idle"
    /\ nreads = 2
    /\ ret = [n |-> 0, err |-> "Canceled"]
    /\ consumed > 0
    /\ delivered = consumed

\* C21: a throttled Read whose buffer is longer than the burst asks the token
\* wait and the underlying stream for burst bytes only, so that the wait never
\* fails for a request above the burst, and returns at most burst bytes, fewer
\* than the buffer holds, with no error but the stream's own.
C21_ClampedShortRead ==
    /\ [](ret.err # "ExceedsBurst")
    /\ [][(nreads' = nreads + 1 /\ waited' /\ pc' # "idle")
          => p' = Min(buf', reader'.burstLimit)]_vars
    /\ []((waited /\ pc \in {"waiting", "reading"}) => p <= reader.burstLimit)
    /\ [][(waited /\ pc = "reading" /\ pc' # "reading")
          => ulRet'.n <= reader.burstLimit]_vars
    /\ [][(ReadReturns /\ waited' /\ buf' > reader'.burstLimit)
          => /\ ret'.n <= reader'.burstLimit
             /\ ret'.n < buf'
             /\ ret'.err \in {ulRet'.err, "Canceled"}]_vars

\* A throttled Read was offered twice the burst and returned the burst, no
\* error.
C21_Witness ==
    /\ pc = "idle"
    /\ waited
    /\ reader.burstLimit = kbps2bpsMultiplier
    /\ buf = 2 * kbps2bpsMultiplier
    /\ ret = [n |-> kbps2bpsMultiplier, err |-> "nil"]

\* C22: a throttled Read of the body of the k-th payload request waits for
\* its tokens under the context of that request, for every k: while it waits,
\* the reader's context is that of the body installed, and once that request's
\* context is cancelled the wait can be aborted.
C22_WaitsUnderOwnContext ==
    pc = "waiting"
        => /\ reader.ctx = reader.ReadCloser
           /\ reader.ReadCloser \in cancelled => ENABLED WaitCancelled

\* C23: the token bucket is built by a Read, with the length of that Read's
\* buffer as burst, full, and the rate rateLimit*125 of the transport; once
\* built it is never built again and its burst and rate never change; a
\* payload RoundTrip that replaces the body leaves bucket, burst, rate and
\* token balance as they are.
C23_BucketBuiltOnce ==
    /\ [][(~reader.limiter /\ reader'.limiter)
          => /\ nreads' = nreads + 1
             /\ reader'.burstLimit = buf'
             /\ reader'.tokens = reader'.burstLimit - p'
             /\ Rate(reader') = transport.rateLimit * kbps2bpsMultiplier]_vars
    /\ [][reader.limiter
          => /\ reader'.limiter
             /\ reader'.burstLimit = reader.burstLimit
             /\ Rate(reader') = Rate(reader)]_vars
    /\ [][(nreq >= 1 /\ nreq' = nreq + 1)
          => /\ reader'.limiter = reader.limiter
             /\ reader'.tokens = reader.tokens
             /\ reader'.burstLimit = reader.burstLimit
             /\ Rate(reader') = Rate(reader)]_vars

\* The body was replaced after a Read that emptied the bucket and ended the
\* stream: the next request starts with the bucket still empty.
C23_Witness ==
    /\ nreq = 2
    /\ reader.ReadCloser = 2
    /\ ~bodyDone
    /\ ret.err = "EOF"
    /\ now = reader.status.Start
    /\ reader.limiter
    /\ reader.burstLimit = buf
    /\ reader.tokens = 0

\* C24: a payload RoundTrip that installs a body into a reader that holds one
\* closes the stream it replaces in the same step, so every stream but the
\* one installed is closed, and a Read is never served from a new body while
\* an older stream is open.
C24_OldStreamClosed ==
    /\ [][(nreq >= 1 /\ nreq' = nreq + 1)
          => /\ reader.ReadCloser \in closed'
             /\ reader'.ReadCloser = nreq']_vars
    /\ [](\A j \in 1..nreq : j # reader.ReadCloser => j \in closed)
    /\ [](pc \in {"waiting", "reading", "record"}
            => \A j \in 1..(reader.ReadCloser - 1) : j \in closed)

\* A Read is being served from the second body: the first stream is closed,
\* the second is open.
C24_Witness ==
    /\ nreq = 2
    /\ reader.ReadCloser = 2
    /\ pc = "reading"
    /\ closed = {1}

\* C25: a Close of the body handed to request k closes the stream of request
\* k only, in any interleaving with the RoundTrip of a later request: it never
\* closes the stream a later request has installed.
C25_ClosesOwnStream ==
    [][\A k \in 1..MaxBodies : CloseBody(k) => closed' \subseteq closed \cup {k}]_vars

\* The limiter, the underlying stream or the status is touched in this step.
ReaderTouched ==
    \/ reader' # reader
    \/ consumed' # consumed
    \/ ulRet' # ulRet

\* C26: at most one Read is in progress at any time: a caller that calls Read
\* while another Read is in progress stays blocked, and touches neither the
\* limiter, the underlying stream nor the status, until that Read has
\* returned; what is touched meanwhile is touched by the Read in progress.
C26_OneReadAtATime ==
    /\ [](locked <=> pc # "idle")
    /\ [][lockq' < lockq => (~locked /\ pc = "idle" /\ nreads' = nreads + 1)]_vars
    /\ [][(locked /\ lockq > 0 /\ ReaderTouched)
          => /\ lockq' = lockq
             /\ nreads' = nreads
             /\ pc' # pc \/ now' # now]_vars

\* A second caller is blocked at the lock while the first Read is inside the
\* underlying read, having taken its tokens.
C26_Witness ==
    /\ lockq = 1
    /\ locked
    /\ pc = "reading"
    /\ waited
    /\ nreads = 1

\* The clock of the model has stopped while a Read waits for tokens that only
\* time can bring: the token wait makes no progress.
TokenWaitStalled == pc = "waiting" /\ reader.tokens < 0 /\ nticks = MaxTicks

\* C27: no interleaving of RoundTrip, Read, Close and GetMonitorStatus
\* deadlocks.  While the mutex is held the Read that holds it can take a step
\* or time can pass, and while it is free every operation waiting for it can
\* take it; again and again the mutex is free, no GetMonitorStatus is pending
\* and no Read is blocked at the mutex, as long as the token wait progresses.
C27_NoDeadlock ==
    /\ []((locked /\ ~TokenWaitStalled)
            => ENABLED (WaitDone \/ UnderlyingRead \/ ReadEnd \/ Tick))
    /\ []((~locked /\ rpc = "locking") => ENABLED GetMonitorStatus)
    /\ []((~locked /\ lockq > 0) => ENABLED ReadAfterLock)
    /\ []((~locked /\ nreq < MaxBodies) => ENABLED RoundTrip)
    /\ []<>(~locked \/ TokenWaitStalled)
    /\ []<>(rpc = "idle" \/ TokenWaitStalled)
    /\ []<>(lockq = 0 \/ TokenWaitStalled)

\* GetMonitorStatus and a second Read both wait for the mutex, held by a Read
\* of the second body that is itself waiting for tokens.
C27_Witness ==
    /\ locked
    /\ pc = "waiting"
    /\ reader.tokens < 0
    /\ rpc = "locking"
    /\ lockq = 1
    /\ nreq = 2
    /\ ~TokenWaitStalled

\* C28: with a rate limit, no cancellation and a finite stream, repeated Reads
\* with non-empty buffers reach the end of the stream whatever the length,
\* zero included, of the first buffer offered: every such Read asks the stream
\* for at least one byte, and when it returns without error it has delivered
\* at least one.
C28_ReadsReachEnd ==
    /\ []((pc = "reading" /\ buf > 0) => p > 0)
    /\ [][(ReadReturns /\ buf' > 0 /\ ret'.err = "nil") => ret'.n > 0]_vars

\* C29: every status update with TotalBytes > 0 leaves TimeRem equal to the
\* bytes still to go divided by the AvgRate that the same update stores, and
\* at 0 when that rate is 0.
C29_EtaFromSameUpdate ==
    [][(pc = "record" /\ pc' = "idle" /\ reader.status.TotalBytes > 0)
       => LET st == reader'.status
          IN IF st.AvgRate # 0
             THEN st.TimeRem = (st.TotalBytes - st.Bytes) \div st.AvgRate
             ELSE st.TimeRem = 0]_vars

\* C30: if no callback request arrives within callbackTimeout after the
\* callback server is started, the server is shut down and callbackCh is
\* closed, and BuildOAuthHTTPClient stops waiting and returns an error.
C30_CallbackTimeout ==
    (oauth.main = "waiting" /\ oauth.elapsed = CallbackTimeout /\ oauth.requests = 0)
        ~> \/ oauth.down /\ oauth.ch = "closed" /\ oauth.main = "error"
           \/ oauth.requests > 0

====
